---- MODULE Spec2Model ----
(***************************************************************************)
(* Model of aux/prepare_data.py: the adjective/adverb lexicons, the        *)
(* morphological transformation transform_adj_to_adv, the construction of  *)
(* adj_to_adv / adv_to_adj, the corpus scanner with its example collector, *)
(* and the sampler/writer.                                                 *)
(*                                                                         *)
(* A Python str is a sequence of one-character strings, so that endswith,  *)
(* startswith, slicing, concatenation and strip are computed and not       *)
(* assumed.  Python's None is the one-element sequence None, which is no   *)
(* str because "None" is not a character.                                  *)
(***************************************************************************)
EXTENDS Integers, Sequences, FiniteSets, TLC

VARIABLES
    pc,          \* position of the script: "start", "build", "scan", "done", "failed"
    adjFile,     \* ../data/adjectives.txt: whether it can be opened, and its raw lines
    advFile,     \* ../data/adverbs.txt: whether it can be opened, and its raw lines
    corpus,      \* os.listdir(input_dir) in listing order; each file with its lines
    ADJ,         \* set of adjectives (line 23)
    ADV,         \* set of adverbs (line 26)
    todo,        \* adjectives the loop of line 66 has not visited yet
    ret,         \* the last call of transform_adj_to_adv: its argument and its result
    adj_to_adv,  \* dict (line 64), a function from its keys
    adv_to_adj,  \* dict (line 64), a function from its keys
    adj,         \* list of adjective examples (line 76)
    adv,         \* list of adverb examples (line 76)
    fi,          \* index in the listing of the file being read
    li,          \* index of the next line of that file; 0 when the file is not open yet
    submitted,   \* the texts handed to nlp(...), in order
    output,      \* ../data/adj_vs_adv_data.json: whether it exists, and the list dumped into it
    writes       \* how many times the output file has been written

vars == <<pc, adjFile, advFile, corpus, ADJ, ADV, todo, ret, adj_to_adv, adv_to_adj,
          adj, adv, fi, li, submitted, output, writes>>

----------------------------------------------------------------------------
(* Python values and str methods *)

None == <<"None">>

Whitespace == {" ", "\t", "\n", "\r"}

endswith(s, suffix) ==
    /\ Len(s) >= Len(suffix)
    /\ SubSeq(s, Len(s) - Len(suffix) + 1, Len(s)) = suffix

startswith(s, prefix) ==
    /\ Len(s) >= Len(prefix)
    /\ SubSeq(s, 1, Len(prefix)) = prefix

\* s[:-1]
DropLast(s) == SubSeq(s, 1, Len(s) - 1)

RECURSIVE lstrip(_)
lstrip(s) ==
    IF s # <<>> /\ Head(s) \in Whitespace THEN lstrip(Tail(s)) ELSE s

RECURSIVE rstrip(_)
rstrip(s) ==
    IF s # <<>> /\ s[Len(s)] \in Whitespace THEN rstrip(DropLast(s)) ELSE s

strip(s) == rstrip(lstrip(s))

\* truth value of a str or None in a condition
Truthy(x) == x # None /\ x # <<>>

\* d.get(key, None)
Get(d, key) == IF key \in DOMAIN d THEN d[key] ELSE None

\* d[key] = value
Put(d, key, value) ==
    [k \in DOMAIN d \cup {key} |-> IF k = key THEN value ELSE d[k]]

EmptyDict == [k \in {} |-> None]

Min(a, b) == IF a <= b THEN a ELSE b

----------------------------------------------------------------------------
(* Words *)

w_empty == <<>>
w_ly == <<"l", "y">>
w_le == <<"l", "e">>
w_good == <<"g", "o", "o", "d">>
w_well == <<"w", "e", "l", "l">>
w_whole == <<"w", "h", "o", "l", "e">>
w_wholly == <<"w", "h", "o", "l", "l", "y">>
w_true == <<"t", "r", "u", "e">>
w_truly == <<"t", "r", "u", "l", "y">>
w_sole == <<"s", "o", "l", "e">>
w_solely == <<"s", "o", "l", "e", "l", "y">>
w_soly == <<"s", "o", "l", "y">>
w_shy == <<"s", "h", "y">>
w_shyly == <<"s", "h", "y", "l", "y">>
w_shily == <<"s", "h", "i", "l", "y">>
w_able == <<"a", "b", "l", "e">>
w_ably == <<"a", "b", "l", "y">>
w_easy == <<"e", "a", "s", "y">>
w_easily == <<"e", "a", "s", "i", "l", "y">>
w_comic == <<"c", "o", "m", "i", "c">>
w_comical == <<"c", "o", "m", "i", "c", "a", "l">>
w_comically == <<"c", "o", "m", "i", "c", "a", "l", "l", "y">>
w_full == <<"f", "u", "l", "l">>
w_fully == <<"f", "u", "l", "l", "y">>
w_free == <<"f", "r", "e", "e">>
w_freely == <<"f", "r", "e", "e", "l", "y">>
w_fast == <<"f", "a", "s", "t">>
w_only == <<"o", "n", "l", "y">>

----------------------------------------------------------------------------
(* transform_adj_to_adv, lines 29-62.  lexicon is the set ADV the closure reads. *)

\* the suffix rules without the exclusions of "sole" and "shy"
suffix_rule_without_exclusions(adjective) ==
    IF endswith(adjective, <<"l", "e">>)
        THEN DropLast(adjective) \o <<"y">>
    ELSE IF endswith(adjective, <<"y">>)
        THEN DropLast(adjective) \o <<"i", "l", "y">>
    ELSE IF endswith(adjective, <<"i", "c">>)
        THEN adjective \o <<"a", "l", "l", "y">>
    ELSE IF endswith(adjective, <<"l", "l">>)
        THEN adjective \o <<"y">>
    ELSE adjective \o <<"l", "y">>

\* lines 46-60: the candidate the first matching suffix rule forms
suffix_rule(adjective) ==
    IF endswith(adjective, <<"l", "e">>) /\ adjective # w_sole
        THEN DropLast(adjective) \o <<"y">>
    ELSE IF endswith(adjective, <<"y">>) /\ adjective # w_shy
        THEN DropLast(adjective) \o <<"i", "l", "y">>
    ELSE IF endswith(adjective, <<"i", "c">>)
        THEN adjective \o <<"a", "l", "l", "y">>
    ELSE IF endswith(adjective, <<"l", "l">>)
        THEN adjective \o <<"y">>
    ELSE adjective \o <<"l", "y">>

\* the transformation without the validity check of line 62
transform_without_gate(adjective, lexicon) ==
    IF endswith(adjective, <<"l", "y">>) THEN None
    ELSE IF adjective \in lexicon THEN adjective
    ELSE IF adjective = w_good THEN w_well
    ELSE IF adjective \in {w_whole, w_true} THEN DropLast(adjective) \o <<"l", "y">>
    ELSE suffix_rule(adjective)

\* the transformation with the exception table consulted before the lexicon
transform_exceptions_first(adjective, lexicon) ==
    IF endswith(adjective, <<"l", "y">>) THEN None
    ELSE IF adjective = w_good THEN w_well
    ELSE IF adjective \in {w_whole, w_true} THEN DropLast(adjective) \o <<"l", "y">>
    ELSE IF adjective \in lexicon THEN adjective
    ELSE LET adverb == suffix_rule(adjective)
         IN  IF adverb \in lexicon THEN adverb ELSE None

transform_adj_to_adv(adjective, lexicon) ==
    IF endswith(adjective, <<"l", "y">>) THEN None
    ELSE IF adjective \in lexicon THEN adjective
    ELSE IF adjective = w_good THEN w_well
    ELSE IF adjective \in {w_whole, w_true} THEN DropLast(adjective) \o <<"l", "y">>
    ELSE LET adverb == suffix_rule(adjective)
         IN  IF adverb \in lexicon THEN adverb ELSE None

----------------------------------------------------------------------------
(* Lexicon loader, lines 22-26 *)

\* set(line.strip() for line in f.readlines())
read_lexicon(file) == {strip(line) : line \in file.lines}

LoadLexicons ==
    /\ pc = "start"
    /\ adjFile.readable /\ advFile.readable
    /\ ADJ' = read_lexicon(adjFile)
    /\ ADV' = read_lexicon(advFile)
    /\ todo' = read_lexicon(adjFile)
    /\ pc' = "build"
    /\ UNCHANGED <<adjFile, advFile, corpus, ret, adj_to_adv, adv_to_adj, adj, adv,
                   fi, li, submitted, output, writes>>

\* open(...) of line 22 or of line 25 raises: the run ends there
LoadLexiconsFails ==
    /\ pc = "start"
    /\ ~(adjFile.readable /\ advFile.readable)
    /\ pc' = "failed"
    /\ UNCHANGED <<adjFile, advFile, corpus, ADJ, ADV, todo, ret, adj_to_adv,
                   adv_to_adj, adj, adv, fi, li, submitted, output, writes>>

----------------------------------------------------------------------------
(* Morphology mapper, lines 64-70: one iteration of "for adj in ADJ", the set *)
(* being iterated in an order the program does not choose.                    *)

\* the condition of line 68
keeps_mapping(adjective, adverb) == Truthy(adverb) /\ adverb # adjective

\* line 70
record_reverse(d, adjective, adverb) == Put(d, adverb, adjective)

BuildStep ==
    /\ pc = "build"
    /\ \E a \in todo :
         LET adverb == transform_adj_to_adv(a, ADV)
         IN  /\ ret' = [adjective |-> a, adverb |-> adverb]
             /\ IF keeps_mapping(a, adverb)
                   THEN /\ adj_to_adv' = Put(adj_to_adv, a, adverb)
                        /\ adv_to_adj' = record_reverse(adv_to_adj, a, adverb)
                   ELSE UNCHANGED <<adj_to_adv, adv_to_adj>>
             /\ todo' = todo \ {a}
    /\ UNCHANGED <<pc, adjFile, advFile, corpus, ADJ, ADV, adj, adv, fi, li,
                   submitted, output, writes>>

----------------------------------------------------------------------------
(* Corpus scanner and example collector, lines 74-98 *)

FileCap == 55

\* os.listdir(args.input_dir)[:55]
selected_files(listing) == SubSeq(listing, 1, Min(FileCap, Len(listing)))

\* [token.text for token in sent]
token_texts(sent) == [k \in 1..Len(sent) |-> sent[k].text]

\* the dict of lines 90-92 / 96-98; i counts from 0 as range(len(sent)) does
example(sent, i, label) == [sentence |-> token_texts(sent), ind |-> i, label |-> label]

\* lines 87-89
is_adj_match(token, a2v) ==
    /\ token.tag_ = <<"J", "J">>
    /\ startswith(token.head_tag_, <<"V", "B">>)
    /\ Truthy(Get(a2v, token.text))

\* lines 93-95
is_adv_match(token, v2a) ==
    /\ token.tag_ = <<"R", "B">>
    /\ startswith(token.head_tag_, <<"V", "B">>)
    /\ Truthy(Get(v2a, token.text))

\* lines 86-98 for sent[i]; lists is <<adj, adv>>
collect_token(lists, sent, i, a2v, v2a) ==
    LET token == sent[i + 1]
    IN  IF is_adj_match(token, a2v)
            THEN <<Append(lists[1], example(sent, i, "ADJ")), lists[2]>>
        ELSE IF is_adv_match(token, v2a)
            THEN <<lists[1], Append(lists[2], example(sent, i, "ADV"))>>
        ELSE lists

\* line 85: for i in range(len(sent)), from position i on
RECURSIVE collect_sent(_, _, _, _, _)
collect_sent(lists, sent, i, a2v, v2a) ==
    IF i >= Len(sent) THEN lists
    ELSE collect_sent(collect_token(lists, sent, i, a2v, v2a), sent, i + 1, a2v, v2a)

\* line 84: for sent in nlp(line).sents
RECURSIVE collect_doc(_, _, _, _)
collect_doc(lists, sents, a2v, v2a) ==
    IF sents = <<>> THEN lists
    ELSE collect_doc(collect_sent(lists, Head(sents), 0, a2v, v2a), Tail(sents), a2v, v2a)

\* the test of line 83 without its markup half
is_content_keeps_markup(line) == Len(line) > 0

\* line 83, for the stripped line
is_content(line) == Len(line) > 0 /\ ~startswith(line, <<"<">>)

Files == selected_files(corpus)

\* after a line (or an empty file): the next line, else the next file
Advance(nlines) ==
    IF li < nlines
        THEN /\ li' = li + 1
             /\ fi' = fi
        ELSE /\ li' = 0
             /\ fi' = fi + 1

\* line 74 and line 76, once the loop of line 66 has ended
LoadAnnotator ==
    /\ pc = "build"
    /\ todo = {}
    /\ pc' = "scan"
    /\ adj' = <<>>
    /\ adv' = <<>>
    /\ fi' = 1
    /\ li' = 0
    /\ UNCHANGED <<adjFile, advFile, corpus, ADJ, ADV, todo, ret, adj_to_adv,
                   adv_to_adj, submitted, output, writes>>

\* lines 77-81: open the next file and read its lines
OpenFile ==
    /\ pc = "scan"
    /\ fi <= Len(Files)
    /\ li = 0
    /\ Files[fi].readable
    /\ IF Files[fi].lines = <<>>
          THEN /\ fi' = fi + 1
               /\ li' = 0
          ELSE /\ fi' = fi
               /\ li' = 1
    /\ UNCHANGED <<pc, adjFile, advFile, corpus, ADJ, ADV, todo, ret, adj_to_adv,
                   adv_to_adj, adj, adv, submitted, output, writes>>

\* line 79: open(...) raises
OpenFileFails ==
    /\ pc = "scan"
    /\ fi <= Len(Files)
    /\ li = 0
    /\ ~Files[fi].readable
    /\ pc' = "failed"
    /\ UNCHANGED <<adjFile, advFile, corpus, ADJ, ADV, todo, ret, adj_to_adv,
                   adv_to_adj, adj, adv, fi, li, submitted, output, writes>>

\* lines 81-98 for one line of the open file
ScanLine ==
    /\ pc = "scan"
    /\ fi <= Len(Files)
    /\ li >= 1
    /\ LET entry == Files[fi].lines[li]
           line == strip(entry.raw)
       IN  IF is_content(line)
              THEN /\ ~entry.nlp.raises
                   /\ submitted' = Append(submitted, line)
                   /\ LET lists == collect_doc(<<adj, adv>>, entry.nlp.sents,
                                               adj_to_adv, adv_to_adj)
                      IN  /\ adj' = lists[1]
                          /\ adv' = lists[2]
              ELSE UNCHANGED <<submitted, adj, adv>>
    /\ Advance(Len(Files[fi].lines))
    /\ UNCHANGED <<pc, adjFile, advFile, corpus, ADJ, ADV, todo, ret, adj_to_adv,
                   adv_to_adj, output, writes>>

\* line 84: nlp(line) raises
AnnotatorFails ==
    /\ pc = "scan"
    /\ fi <= Len(Files)
    /\ li >= 1
    /\ LET entry == Files[fi].lines[li]
       IN  /\ is_content(strip(entry.raw))
           /\ entry.nlp.raises
           /\ submitted' = Append(submitted, strip(entry.raw))
    /\ pc' = "failed"
    /\ UNCHANGED <<adjFile, advFile, corpus, ADJ, ADV, todo, ret, adj_to_adv,
                   adv_to_adj, adj, adv, fi, li, output, writes>>

----------------------------------------------------------------------------
(* Sampler/writer, lines 100-107 *)

Cap == 10000

\* xs[:n]
Take(xs, n) == SubSeq(xs, 1, Min(n, Len(xs)))

\* the two lists joined without the cap
sample_uncapped(adjs, advs) == adjs \o advs

\* adj[:10000] + adv[:10000]
sample(adjs, advs) == Take(adjs, Cap) \o Take(advs, Cap)

\* the writer run from inside the loop over the files
WriteInsideLoop ==
    /\ pc = "scan"
    /\ output' = [exists |-> TRUE, data |-> sample(adj, adv)]
    /\ writes' = writes + 1
    /\ pc' = IF fi > Len(Files) THEN "done" ELSE "scan"
    /\ UNCHANGED <<adjFile, advFile, corpus, ADJ, ADV, todo, ret, adj_to_adv,
                   adv_to_adj, adj, adv, fi, li, submitted>>

Write ==
    /\ pc = "scan"
    /\ fi > Len(Files)
    /\ output' = [exists |-> TRUE, data |-> sample(adj, adv)]
    /\ writes' = writes + 1
    /\ pc' = "done"
    /\ UNCHANGED <<adjFile, advFile, corpus, ADJ, ADV, todo, ret, adj_to_adv,
                   adv_to_adj, adj, adv, fi, li, submitted>>

----------------------------------------------------------------------------
(* Inputs: the lexicon files, and the corpus with what the annotator returns *)
(* for each of its lines.                                                    *)

MaxFiles == 2
MaxLines == 2
MaxAdj == 2
MaxMorphAdj == 1
MaxMorphAdv == 1

JJ == <<"J", "J">>
RB == <<"R", "B">>
NN == <<"N", "N">>
VB == <<"V", "B">>
VBZ == <<"V", "B", "Z">>

Token(text, tag, head_tag) == [text |-> text, tag_ |-> tag, head_tag_ |-> head_tag]

Doc(sents) == [raises |-> FALSE, sents |-> sents]

Raises == [raises |-> TRUE, sents |-> <<>>]

Line(raw, nlp) == [raw |-> raw, nlp |-> nlp]

w_is == <<"i", "s">>
w_go == <<"g", "o">>
w_air == <<"a", "i", "r">>

\* "ly go le": an adverb and an adjective both governed by the verb
sent_ly_go_le == <<Token(w_ly, RB, VB), Token(w_go, VB, VB), Token(w_le, JJ, VB)>>

\* "is comic": an adjective governed by a verb
sent_is_comic == <<Token(w_is, VBZ, VBZ), Token(w_comic, JJ, VBZ)>>

\* "go comically": an adverb governed by a verb
sent_go_comically == <<Token(w_go, VB, VB), Token(w_comically, RB, VB)>>

\* "comic air is comic": an adjective governed by a noun, one governed by a verb
sent_comic_air ==
    <<Token(w_comic, JJ, NN), Token(w_air, NN, VBZ), Token(w_is, VBZ, VBZ),
      Token(w_comic, JJ, VBZ)>>

\* "air comic": the word tagged as a noun under a verb
sent_air_comic == <<Token(w_air, VB, VB), Token(w_comic, NN, VB)>>

line_blank == Line(<<"\n">>, Doc(<<>>))

line_spaces == Line(<<" ", "\t", "\n">>, Doc(<<>>))

line_markup ==
    Line(<<"<">> \o w_is \o <<" ">> \o w_comic \o <<"\n">>,
         Doc(<<<<Token(<<"<">>, NN, VBZ)>> \o sent_is_comic>>))

line_is_comic == Line(w_is \o <<" ">> \o w_comic \o <<"\n">>, Doc(<<sent_is_comic>>))

line_ly_go_le ==
    Line(w_ly \o <<" ">> \o w_go \o <<" ">> \o w_le \o <<"\n">>, Doc(<<sent_ly_go_le>>))

line_go_comically ==
    Line(w_go \o <<" ">> \o w_comically \o <<"\n">>, Doc(<<sent_go_comically>>))

line_two_sents ==
    Line(<<"\t">> \o w_go \o <<" ">> \o w_comically \o <<" ">> \o w_comic \o <<" ">> \o w_air
            \o <<" ">> \o w_is \o <<" ">> \o w_comic \o <<" ">> \o w_air \o <<" ">> \o w_comic
            \o <<" ", "\n">>,
         Doc(<<sent_go_comically, sent_comic_air, sent_air_comic>>))

line_bad == Line(<<"x", "\n">>, Raises)

GoodLines ==
    {line_blank, line_spaces, line_markup, line_ly_go_le, line_two_sents}

SeqsUpTo(S, n) == UNION {[1..k -> S] : k \in 0..n}

\* at most n lines; a run ends at the first line the annotator fails on, so such a
\* line comes last
LineSeqs(n) ==
    SeqsUpTo(GoodLines, n)
        \cup (IF n = 0 THEN {} ELSE {Append(ls, line_bad) : ls \in SeqsUpTo(GoodLines, n - 1)})

\* the ways to end k files within n lines: nondecreasing, the last file ending at n
Cuts(k, n) ==
    {c \in [1..k -> 0..n] : \A f \in 1..k : (f > 1 => c[f - 1] <= c[f]) /\ (f = k => c[f] = n)}

\* the lines ls shared out over readable files, file f ending after line cuts[f]
Split(ls, cuts) ==
    [f \in DOMAIN cuts |->
        [readable |-> TRUE,
         lines |-> SubSeq(ls, (IF f = 1 THEN 0 ELSE cuts[f - 1]) + 1, cuts[f])]]

ReadableCorpora(maxfiles) ==
    UNION {{Split(ls, cuts) : cuts \in Cuts(k, Len(ls))} :
           ls \in LineSeqs(MaxLines), k \in (IF maxfiles >= 1 THEN 1 ELSE 0)..maxfiles}

NoFiles == SubSeq(<<>>, 1, 0)

UnreadableFile == [readable |-> FALSE, lines |-> <<>>]

\* at most MaxFiles files holding at most MaxLines lines together; a run ends at the
\* first file it cannot open, so such a file comes last
Corpora ==
    {NoFiles}
        \cup ReadableCorpora(MaxFiles)
        \cup (IF MaxFiles = 0 THEN {}
              ELSE {Append(c, UnreadableFile) : c \in {NoFiles} \cup ReadableCorpora(MaxFiles - 1)})

LexiconFile(words) == [readable |-> TRUE, lines |-> {w \o <<"\n">> : w \in words}]

NoLexiconFile == [readable |-> FALSE, lines |-> {}]

LexiconFiles(words, n) ==
    {LexiconFile(ws) : ws \in {x \in SUBSET words : Cardinality(x) <= n}}

ScanAdjectives == {w_empty, w_le, w_comic, w_comical}

ScanAdverbs == {w_ly, w_comically}

InitRest ==
    /\ pc = "start"
    /\ ADJ = {}
    /\ ADV = {}
    /\ todo = {}
    /\ ret = [adjective |-> None, adverb |-> None]
    /\ adj_to_adv = EmptyDict
    /\ adv_to_adj = EmptyDict
    /\ adj = <<>>
    /\ adv = <<>>
    /\ fi = 0
    /\ li = 0
    /\ submitted = <<>>
    /\ output = [exists |-> FALSE, data |-> <<>>]
    /\ writes = 0

\* at most MaxAdj of the adjectives, the two adverbs, and a corpus; or a lexicon file
\* that cannot be opened, where the run ends before it looks at anything else
Init ==
    /\ \/ /\ adjFile \in LexiconFiles(ScanAdjectives, MaxAdj)
          /\ advFile = LexiconFile(ScanAdverbs)
          /\ corpus \in Corpora
       \/ /\ adjFile = NoLexiconFile
          /\ advFile = LexiconFile(ScanAdverbs)
          /\ corpus = NoFiles
       \/ /\ adjFile = LexiconFile(ScanAdjectives)
          /\ advFile = NoLexiconFile
          /\ corpus = NoFiles
    /\ InitRest

Next ==
    \/ LoadLexicons
    \/ LoadLexiconsFails
    \/ BuildStep
    \/ LoadAnnotator
    \/ OpenFile
    \/ OpenFileFails
    \/ ScanLine
    \/ AnnotatorFails
    \/ Write

Spec == Init /\ [][Next]_vars

----------------------------------------------------------------------------
(* The morphology mapper alone, over a wider vocabulary: lexicons of at most *)
(* MaxMorphAdj adjectives and MaxMorphAdv adverbs, and no corpus.                      *)

MorphAdjectives ==
    {w_empty, w_only, w_fast, w_good, w_whole, w_true, w_able, w_sole, w_shy, w_easy,
     w_comic, w_comical, w_full, w_free}

MorphAdverbs ==
    {w_ly, w_only, w_fast, w_good, w_whole, w_true, w_well, w_wholly, w_truly, w_ably, w_solely, w_soly,
     w_shyly, w_shily, w_easily, w_comically, w_fully, w_freely}

InitMorph ==
    /\ adjFile \in LexiconFiles(MorphAdjectives, MaxMorphAdj)
    /\ advFile \in LexiconFiles(MorphAdverbs, MaxMorphAdv)
    /\ corpus = NoFiles
    /\ InitRest

NextMorph ==
    \/ LoadLexicons
    \/ BuildStep

SpecMorph == InitMorph /\ [][NextMorph]_vars

----------------------------------------------------------------------------
(* The sampler/writer alone, after scans long enough to pass the cap: one    *)
(* file of nboth lines "ly go le" (an example for each list), then lines     *)
(* "is comic" up to na adjective examples, then lines "go comically" up to   *)
(* nv adverb examples.                                                       *)

MaxOver == 5000
MaxBoth == 1

CapLens == {0, 1, 3000, Cap - 1, Cap, Cap + 1, Cap + MaxOver}

CapWords == {w_comic, w_le}

CapAdverbs == {w_comically, w_ly}

ex_le == example(sent_ly_go_le, 2, "ADJ")

ex_comic == example(sent_is_comic, 1, "ADJ")

ex_ly == example(sent_ly_go_le, 0, "ADV")

ex_comically == example(sent_go_comically, 1, "ADV")

text_ly_go_le == strip(line_ly_go_le.raw)

text_is_comic == strip(line_is_comic.raw)

text_go_comically == strip(line_go_comically.raw)

LongFile(nboth, na, nv) ==
    [readable |-> TRUE,
     lines |-> [i \in 1..(na + nv - nboth) |->
                  IF i <= nboth THEN line_ly_go_le
                  ELSE IF i <= na THEN line_is_comic
                  ELSE line_go_comically]]

InitCap ==
    \E nboth \in 0..MaxBoth, na \in CapLens, nv \in CapLens :
        /\ nboth <= na /\ nboth <= nv
        /\ adjFile = LexiconFile(CapWords)
        /\ advFile = LexiconFile(CapAdverbs)
        /\ ADJ = CapWords
        /\ ADV = CapAdverbs
        /\ todo = {}
        /\ ret = [adjective |-> w_le, adverb |-> transform_adj_to_adv(w_le, CapAdverbs)]
        /\ adj_to_adv = [a \in CapWords |-> transform_adj_to_adv(a, CapAdverbs)]
        /\ adv_to_adj = [v \in CapAdverbs |-> IF v = w_ly THEN w_le ELSE w_comic]
        /\ corpus = <<LongFile(nboth, na, nv)>>
        /\ adj = [i \in 1..na |-> IF i <= nboth THEN ex_le ELSE ex_comic]
        /\ adv = [i \in 1..nv |-> IF i <= nboth THEN ex_ly ELSE ex_comically]
        /\ submitted = [i \in 1..(na + nv - nboth) |->
                          IF i <= nboth THEN text_ly_go_le
                          ELSE IF i <= na THEN text_is_comic
                          ELSE text_go_comically]
        /\ pc = "scan"
        /\ fi = 2
        /\ li = 0
        /\ output = [exists |-> FALSE, data |-> <<>>]
        /\ writes = 0

NextCap == Write

SpecCap == InitCap /\ [][NextCap]_vars

----------------------------------------------------------------------------
(* Properties of the sampler/writer *)

\* C1: the written output is the first min(A, 10000) adjective examples, in discovery
\* order, followed by the first min(V, 10000) adverb examples, in discovery order: its
\* length is min(A, 10000) + min(V, 10000), every ADJ example comes before every ADV
\* example, and nothing beyond the first 10000 of either list is in it.
C1_OutputIsCappedConcatenation ==
    output.exists =>
        LET na == IF Len(adj) < 10000 THEN Len(adj) ELSE 10000
            nv == IF Len(adv) < 10000 THEN Len(adv) ELSE 10000
        IN  /\ Len(output.data) = na + nv
            /\ \A i \in 1..na : output.data[i] = adj[i] /\ output.data[i].label = "ADJ"
            /\ \A j \in 1..nv : output.data[na + j] = adv[j] /\ output.data[na + j].label = "ADV"

\* the case of the specification: 15000 adjective matches and 3000 adverb matches
C1_Witness ==
    /\ output.exists
    /\ Len(adj) = 15000
    /\ Len(adv) = 3000
    /\ Len(output.data) = 13000
    /\ adj[1] # adj[15000]

\* C10: a run that completes has written exactly 10000 ADJ examples and exactly 10000
\* ADV examples.
C10_BalancedOutput ==
    pc = "done" =>
        /\ Cardinality({i \in 1..Len(output.data) : output.data[i].label = "ADJ"}) = 10000
        /\ Cardinality({i \in 1..Len(output.data) : output.data[i].label = "ADV"}) = 10000

----------------------------------------------------------------------------
(* Properties of the morphology mapper *)

ExceptionAdjectives == {w_good, w_whole, w_true}

ExceptionAdverb(a) ==
    CASE a = w_good -> w_well
      [] a = w_whole -> w_wholly
      [] a = w_true -> w_truly

Called == ret.adjective # None

\* C2: once the loop has visited every adjective, adv_to_adj is the exact inverse of
\* adj_to_adv: every adjective a with adj_to_adv[a] = v has adv_to_adj[v] = a.
C2_ReverseMapIsInverse ==
    (pc # "start" /\ todo = {}) =>
        \A a \in DOMAIN adj_to_adv :
            /\ adj_to_adv[a] \in DOMAIN adv_to_adj
            /\ adv_to_adj[adj_to_adv[a]] = a

\* C3 as stated: whatever string transform_adj_to_adv returns is in the adverb lexicon,
\* and so is every value of adj_to_adv and every key of adv_to_adj.
C3_EveryResultIsInLexicon ==
    /\ (Called /\ ret.adverb # None) => ret.adverb \in ADV
    /\ \A a \in DOMAIN adj_to_adv : adj_to_adv[a] \in ADV
    /\ DOMAIN adv_to_adj \subseteq ADV

\* C3 as amended: a string returned for an adjective outside the exception table
\* (good, whole, true) is in the adverb lexicon; for an adjective of the table the
\* result is in the lexicon or is the table's adverb (well, wholly, truly), which is
\* returned without a look at the lexicon.  So every value of adj_to_adv and every key
\* of adv_to_adj is in the lexicon or is the table's adverb of its adjective.
C3_ResultInLexiconOrException ==
    /\ (Called /\ ret.adverb # None) =>
          \/ ret.adverb \in ADV
          \/ /\ ret.adjective \in ExceptionAdjectives
             /\ ret.adverb = ExceptionAdverb(ret.adjective)
    /\ \A a \in DOMAIN adj_to_adv :
          \/ adj_to_adv[a] \in ADV
          \/ a \in ExceptionAdjectives /\ adj_to_adv[a] = ExceptionAdverb(a)
    /\ \A v \in DOMAIN adv_to_adj :
          \/ v \in ADV
          \/ adv_to_adj[v] \in ExceptionAdjectives /\ v = ExceptionAdverb(adv_to_adj[v])

\* a candidate formed by a suffix rule has passed the gate and is recorded in both maps
C3_Witness ==
    /\ ret = [adjective |-> w_free, adverb |-> w_freely]
    /\ w_freely \in ADV
    /\ Get(adj_to_adv, w_free) = w_freely
    /\ Get(adv_to_adj, w_freely) = w_free

\* C4 as stated: for every adverb lexicon, good gives well, whole gives wholly and
\* true gives truly.
C4_ExceptionsAlways ==
    (Called /\ ret.adjective \in ExceptionAdjectives) =>
        ret.adverb = ExceptionAdverb(ret.adjective)

\* C4 as amended: for every adverb lexicon that does not hold the adjective itself,
\* good gives well, whole gives wholly and true gives truly; an adjective of the three
\* that is itself in the adverb lexicon is returned unchanged.
C4_ExceptionsUnlessInLexicon ==
    (Called /\ ret.adjective \in ExceptionAdjectives) =>
        ret.adverb = IF ret.adjective \in ADV
                        THEN ret.adjective
                        ELSE ExceptionAdverb(ret.adjective)

\* whole gives wholly although wholly is not in the lexicon
C4_Witness ==
    /\ ret = [adjective |-> w_whole, adverb |-> w_wholly]
    /\ w_wholly \notin ADV

\* the one rule of the claim's list that applies to a, spelled out case by case
IsCandidate(a, c) ==
    LET le == Len(a) >= 2 /\ a[Len(a) - 1] = "l" /\ a[Len(a)] = "e" /\ a # w_sole
        y == Len(a) >= 1 /\ a[Len(a)] = "y" /\ a # w_shy
        ic == Len(a) >= 2 /\ a[Len(a) - 1] = "i" /\ a[Len(a)] = "c"
        ll == Len(a) >= 2 /\ a[Len(a) - 1] = "l" /\ a[Len(a)] = "l"
    IN  /\ le => \E stem \in {SubSeq(a, 1, Len(a) - 1)} : c = stem \o <<"y">>
        /\ (~le /\ y) => \E stem \in {SubSeq(a, 1, Len(a) - 1)} : c = stem \o <<"i", "l", "y">>
        /\ (~le /\ ~y /\ ic) => c = a \o <<"a", "l", "l", "y">>
        /\ (~le /\ ~y /\ ~ic /\ ll) => c = a \o <<"y">>
        /\ (~le /\ ~y /\ ~ic /\ ~ll) => c = a \o <<"l", "y">>

EndsInLy(a) == Len(a) >= 2 /\ a[Len(a) - 1] = "l" /\ a[Len(a)] = "y"

\* C5: for an adjective that does not end in "ly", is not in the adverb lexicon and is
\* not good, whole or true, the result is the candidate of the first matching suffix
\* rule (le but not sole; y but not shy; ic; ll; else +ly) when that candidate is in
\* the adverb lexicon, and no mapping otherwise.
C5_SuffixRules ==
    (/\ Called
     /\ ~EndsInLy(ret.adjective)
     /\ ret.adjective \notin ADV
     /\ ret.adjective \notin ExceptionAdjectives) =>
        /\ ret.adverb # None => (ret.adverb \in ADV /\ IsCandidate(ret.adjective, ret.adverb))
        /\ ret.adverb = None => \A c \in ADV : ~IsCandidate(ret.adjective, c)

\* sole takes the default rule, not the le rule
C5_Witness ==
    /\ ret = [adjective |-> w_sole, adverb |-> w_solely]
    /\ w_sole \notin ADV

----------------------------------------------------------------------------
(* Properties of the corpus scanner and the example collector *)

\* the lines of the first k files, in order
RECURSIVE LinesOf(_, _)
LinesOf(files, k) ==
    IF k <= 0 THEN <<>> ELSE LinesOf(files, k - 1) \o files[k].lines

AllLines == LinesOf(Files, Len(Files))

\* the lines the scanner has been through: those of the files before file fi, and those
\* of file fi before line li, with line li itself when the annotator failed on it
Handled ==
    IF pc \in {"start", "build"} THEN <<>>
    ELSE LinesOf(Files, Min(fi - 1, Len(Files)))
            \o (IF fi <= Len(Files) /\ li >= 1
                   THEN SubSeq(Files[fi].lines, 1, IF pc = "failed" THEN li ELSE li - 1)
                   ELSE <<>>)

\* a stripped text that is neither empty nor markup
IsText(t) == t # <<>> /\ Head(t) # "<"

\* the stripped texts of the lines among entries that are neither empty nor markup
Texts(entries) == SelectSeq([i \in 1..Len(entries) |-> strip(entries[i].raw)], IsText)

\* a line as the file holds it, without its line terminator
Body(raw) == IF raw # <<>> /\ raw[Len(raw)] = "\n" THEN SubSeq(raw, 1, Len(raw) - 1) ELSE raw

IsRawText(entry) == Body(entry.raw) # <<>> /\ Head(Body(entry.raw)) # "<"

\* the sentences the annotator returns for the lines among entries that are texts
RECURSIVE Sentences(_)
Sentences(entries) ==
    IF entries = <<>> THEN <<>>
    ELSE (IF IsText(strip(Head(entries).raw)) THEN Head(entries).nlp.sents ELSE <<>>)
            \o Sentences(Tail(entries))

Examples == {adj[i] : i \in 1..Len(adj)} \cup {adv[i] : i \in 1..Len(adv)}

\* C8 as stated: a line that begins with "<" and an empty line are never submitted to
\* the annotator, and every other line of the scanned files is submitted exactly once.
C8_EveryOtherLineSubmitted ==
    Len(submitted) = Len(SelectSeq(Handled, IsRawText))

\* C8 as amended: a line that is empty or begins with "<" once its leading and trailing
\* white space is stripped is never submitted to the annotator and contributes no
\* example; every other line of the scanned files is submitted exactly once, in order,
\* in its stripped form.
C8_StrippedTextsSubmitted ==
    /\ submitted = Texts(Handled)
    /\ \A e \in Examples :
          \E k \in 1..Len(Sentences(Handled)) : e.sentence = token_texts(Sentences(Handled)[k])

\* a run that skipped a markup line naming a mapped adjective and scanned a text line
C8_Witness ==
    /\ pc = "done"
    /\ Handled = <<line_markup, line_two_sents>>
    /\ submitted = <<strip(line_two_sents.raw)>>
    /\ w_comic \in DOMAIN adj_to_adv
    /\ Len(adj) = 1

\* C9: the output file is written only once every selected file has been gone through
\* to its last line; a run that fails (a lexicon or corpus file that cannot be opened,
\* an annotator failure) never creates or writes it; it is written at most once.
C9_WrittenOnceAtTheEnd ==
    /\ writes <= 1
    /\ output.exists <=> writes = 1
    /\ output.exists <=> pc = "done"
    /\ pc = "failed" => ~output.exists /\ output.data = <<>>
    /\ output.exists =>
          /\ fi = Len(Files) + 1
          /\ submitted = Texts(AllLines)
          /\ \A f \in 1..Len(Files) : Files[f].readable
          /\ \A k \in 1..Len(AllLines) :
                IsText(strip(AllLines[k].raw)) => ~AllLines[k].nlp.raises

\* an output written after two files, each with a line for the annotator
C9_Witness ==
    /\ output.exists
    /\ Len(Files) = 2
    /\ Files[1].lines # <<>>
    /\ Files[2].lines # <<>>
    /\ Len(submitted) = 2
    /\ output.data # <<>>

\* the positions of sent, counted from 0, whose token satisfies Test
Positions(sent, Test(_)) ==
    SelectSeq([k \in 1..Len(sent) |-> k - 1], LAMBDA i : Test(sent[i + 1]))

ClaimedAdj(token) ==
    /\ token.tag_ = JJ
    /\ Len(token.head_tag_) >= 2 /\ token.head_tag_[1] = "V" /\ token.head_tag_[2] = "B"
    /\ token.text \in DOMAIN adj_to_adv

ClaimedAdv(token) ==
    /\ token.tag_ = RB
    /\ Len(token.head_tag_) >= 2 /\ token.head_tag_[1] = "V" /\ token.head_tag_[2] = "B"
    /\ token.text \in DOMAIN adv_to_adj

\* the examples the claim expects of the sentences sents, for one label
RECURSIVE Claimed(_, _, _)
Claimed(sents, Test(_), label) ==
    IF sents = <<>> THEN <<>>
    ELSE LET sent == Head(sents)
             at == Positions(sent, Test)
         IN  [n \in 1..Len(at) |->
                 [sentence |-> [k \in 1..Len(sent) |-> sent[k].text],
                  ind |-> at[n], label |-> label]]
             \o Claimed(Tail(sents), Test, label)

\* C6: a token adds one ADJ example exactly when it is tagged JJ, its head's tag starts
\* with VB and its text is a key of adj_to_adv, and one ADV example exactly when it is
\* tagged RB, its head's tag starts with VB and its text is a key of adv_to_adj; each
\* example holds the sentence's token texts and the token's position.
C6_OneExamplePerMatch ==
    pc \in {"scan", "done", "failed"} =>
        /\ adj = Claimed(Sentences(Handled), ClaimedAdj, "ADJ")
        /\ adv = Claimed(Sentences(Handled), ClaimedAdv, "ADV")
        /\ \A e \in Examples : e.ind >= 0 /\ e.ind < Len(e.sentence)

\* adj_to_adv and adv_to_adj as the loop of line 66 builds them when it visits the
\* adjectives of S in one fixed order
RECURSIVE FixedOrderMaps(_, _)
FixedOrderMaps(S, maps) ==
    IF S = {} THEN maps
    ELSE LET a == CHOOSE x \in S : TRUE
             adverb == transform_adj_to_adv(a, ADV)
         IN  FixedOrderMaps(S \ {a},
                 IF keeps_mapping(a, adverb)
                    THEN <<Put(maps[1], a, adverb), record_reverse(maps[2], a, adverb)>>
                    ELSE maps)

\* C7: the example lists of a completed run are those of the run over the same inputs
\* that visits the adjective lexicon in a fixed order: the order in which the set is
\* iterated does not show in them.
C7_ListsIndependentOfOrder ==
    pc = "done" =>
        LET maps == FixedOrderMaps(ADJ, <<EmptyDict, EmptyDict>>)
        IN  <<adj, adv>> = collect_doc(<<<<>>, <<>>>>, Sentences(AllLines), maps[1], maps[2])

====
